---- MODULE Spec2Model ----
(***************************************************************************)
(* A model of skycap's realtime voice session (cap_chat.py) and of the     *)
(* timeline provider it calls (timeline.py).                               *)
(*                                                                         *)
(* Threads of cap_chat.py:                                                 *)
(*   main      ChatStreaming.run and the SIGINT handler                    *)
(*   ws        WebSocketApp.run_forever: on_open, on_message, on_close     *)
(*   worker    AudioPlayer._playback_worker                                *)
(*   play      one thread per response.audio.delta (AudioPlayer.play_audio)*)
(*   capture   AudioSender.send_audio                                      *)
(*                                                                         *)
(* The transport (websocket-client) is the environment: it opens or        *)
(* refuses the connection, delivers inbound messages one at a time on the  *)
(* ws thread, and closes the socket before it calls on_close; a send on a  *)
(* closed connection raises.                                               *)
(***************************************************************************)
EXTENDS Integers, Sequences, FiniteSets, TLC

\* ------------------------------------------------------------------ bounds
MaxEvents == 3   \* inbound messages delivered to on_message in one session
MaxCalls == 2    \* of them, response.function_call_arguments.done events
MaxFrames == 1   \* microphone frames the capture loop reads
MaxPosts == 11   \* posts in a fetched feed
MaxFetches == 2  \* calls of Timeline.initialize on one Timeline object

\* ------------------------------------------------------- program constants
page_size == 10

VARIABLES
    mainPc,          \* main thread: "start", "wait_connected", "wait_interrupt", "exited"
    interrupted,     \* module global `interrupted`
    conn,            \* the transport: "none", "connecting", "open", "closed"
    wsPc,            \* position of the ws thread (which callback, which line)
    is_playing,      \* AudioPlayer.is_playing
    audio_queue,     \* AudioPlayer.audio_queue
    lock,            \* AudioPlayer.lock: "free", "worker", "flush"
    outStream,       \* AudioPlayer.stream: "active", "stopped", "closed"
    wPc,             \* _playback_worker: "check", "get", "lock", "write", "dead"
    wChunk,          \* _playback_worker's local audio_chunk
    spawned,         \* play_audio threads started, before line 54
    checked,         \* play_audio threads past `if self.is_playing`, before the put
    audio_sender,    \* ChatStreaming.audio_sender: "None" or "sender"
    running,         \* AudioSender.running
    capPc,           \* send_audio: "unstarted", "check", "read", "send", "exited"
    inStream,        \* AudioSender.stream: "none", "active", "closed"
    initialized,     \* Timeline.initialized
    timeline,        \* Timeline.timeline
    post_index,      \* Timeline.post_index
    call,            \* on_message's locals while a function call is handled
    hist             \* what an observer of the session has seen (not program state)

vars == <<mainPc, interrupted, conn, wsPc, is_playing, audio_queue, lock,
          outStream, wPc, wChunk, spawned, checked, audio_sender, running,
          capPc, inStream, initialized, timeline, post_index, call, hist>>

playerVars == <<is_playing, audio_queue, lock, outStream, wPc, wChunk, spawned, checked>>
senderVars == <<audio_sender, running, capPc, inStream>>
timelineVars == <<initialized, timeline, post_index>>
mainVars == <<mainPc, interrupted>>

\* ---------------------------------------------------------------- helpers
NoChunk == [id |-> 0, epoch |-> 0]
NoOutput == [status |-> "-", kind |-> "-", lines |-> <<>>]
NoCall == [call_id |-> 0, output |-> NoOutput]

\* An outbound protocol message as the connection sees it: its type, the thread
\* that sent it and, for a function_call_output item, its call_id and output.
Msg(type, by) == [type |-> type, by |-> by, call_id |-> 0, output |-> NoOutput]
OutputMsg(call_id, output) ==
    [type |-> "function_call_output", by |-> "ws", call_id |-> call_id, output |-> output]

Alive == mainPc # "exited"

\* `hist` with field f set to v.
Saw(f, v) == [hist EXCEPT ![f] = v]

\* ws.send(json.dumps(m)): the message goes out on an open connection; on a
\* closed one websocket-client raises WebSocketConnectionClosedException.
CanSend == conn = "open"
Sent(m) == Saw("sent", Append(hist.sent, m))

\* ------------------------------------------------ AudioPlayer (cap_chat.py)

\* _playback_worker, line 45: `while self.is_playing`.
WorkerCheck ==
    /\ Alive /\ wPc = "check"
    /\ wPc' = IF is_playing THEN "get" ELSE "dead"
    /\ UNCHANGED <<mainVars, conn, wsPc, is_playing, audio_queue, lock, outStream,
                   wChunk, spawned, checked, senderVars, timelineVars, call, hist>>

\* _playback_worker taking a chunk off the queue and losing it: the loop goes
\* on without the write.
WorkerGet_drops ==
    /\ Alive /\ wPc = "get"
    /\ wPc' = "check"
    /\ audio_queue' = IF audio_queue # <<>> THEN Tail(audio_queue) ELSE audio_queue
    /\ UNCHANGED <<mainVars, conn, wsPc, is_playing, lock, outStream, wChunk,
                   spawned, checked, senderVars, timelineVars, call, hist>>

\* line 47: audio_queue.get(timeout=0.1) returns the head, or raises queue.Empty
\* after the timeout and the loop continues (lines 50-51). The lock is not held.
WorkerGet ==
    /\ Alive /\ wPc = "get"
    /\ IF audio_queue # <<>>
       THEN /\ wChunk' = Head(audio_queue)
            /\ audio_queue' = Tail(audio_queue)
            /\ wPc' = "lock"
       ELSE /\ wPc' = "check"
            /\ UNCHANGED <<wChunk, audio_queue>>
    /\ UNCHANGED <<mainVars, conn, wsPc, is_playing, lock, outStream,
                   spawned, checked, senderVars, timelineVars, call, hist>>

\* line 48: `with self.lock` entered.
WorkerAcquire ==
    /\ Alive /\ wPc = "lock" /\ lock = "free"
    /\ lock' = "worker"
    /\ wPc' = "write"
    /\ UNCHANGED <<mainVars, conn, wsPc, is_playing, audio_queue, outStream,
                   wChunk, spawned, checked, senderVars, timelineVars, call, hist>>

\* line 49: stream.write(audio_chunk), then the lock is released. A write to a
\* stream that is not active raises and ends the thread (only queue.Empty is caught).
WorkerWrite ==
    /\ Alive /\ wPc = "write"
    /\ lock' = "free"
    /\ wChunk' = NoChunk
    /\ IF outStream = "active"
       THEN /\ wPc' = "check"
            /\ hist' = Saw("written", Append(hist.written,
                           [id |-> wChunk.id, epoch |-> wChunk.epoch,
                            flushed |-> hist.flushes, playing |-> is_playing]))
       ELSE /\ wPc' = "dead"
            /\ UNCHANGED hist
    /\ UNCHANGED <<mainVars, conn, wsPc, is_playing, audio_queue, outStream,
                   spawned, checked, senderVars, timelineVars, call>>

\* play_audio, line 54: `if self.is_playing`, in the chunk's own thread.
PlayCheck(c) ==
    /\ Alive /\ c \in spawned
    /\ spawned' = spawned \ {c}
    /\ checked' = IF is_playing THEN checked \cup {c} ELSE checked
    /\ UNCHANGED <<mainVars, conn, wsPc, is_playing, audio_queue, lock, outStream,
                   wPc, wChunk, senderVars, timelineVars, call, hist>>

\* play_audio, line 55: audio_queue.put(audio_bytes); the queue is unbounded and
\* the lock is not taken.
PlayPut(c) ==
    /\ Alive /\ c \in checked
    /\ checked' = checked \ {c}
    /\ audio_queue' = Append(audio_queue, c)
    /\ hist' = Saw("puts", Append(hist.puts,
                   [id |-> c.id, nSpeech |-> hist.nSpeech, flushes |-> hist.flushes,
                    lock |-> lock]))
    /\ UNCHANGED <<mainVars, conn, wsPc, is_playing, lock, outStream,
                   wPc, wChunk, spawned, senderVars, timelineVars, call>>

\* flush, line 58: `with self.lock` entered (on the ws thread, from on_message).
FlushAcquire ==
    /\ Alive /\ wsPc = "flush_acquire" /\ lock = "free"
    /\ lock' = "flush"
    /\ wsPc' = "flush_drain"
    /\ UNCHANGED <<mainVars, conn, is_playing, audio_queue, outStream, wPc, wChunk,
                   spawned, checked, senderVars, timelineVars, call, hist>>

\* lines 59-63: one turn of the drain loop: leave it when the queue is empty
\* (or get_nowait raised queue.Empty), else discard the head.
FlushDrain ==
    /\ Alive /\ wsPc = "flush_drain"
    /\ IF audio_queue # <<>>
       THEN /\ audio_queue' = Tail(audio_queue)
            /\ hist' = Saw("discarded", Append(hist.discarded,
                           [id |-> Head(audio_queue).id, by |-> hist.nSpeech]))
            /\ UNCHANGED wsPc
       ELSE /\ wsPc' = "flush_stop"
            /\ UNCHANGED <<audio_queue, hist>>
    /\ UNCHANGED <<mainVars, conn, is_playing, lock, outStream, wPc, wChunk,
                   spawned, checked, senderVars, timelineVars, call>>

\* line 64: stream.stop_stream().
FlushStop ==
    /\ Alive /\ wsPc = "flush_stop"
    /\ outStream' = "stopped"
    /\ hist' = Saw("outOps", Append(hist.outOps, [op |-> "stop", by |-> hist.nSpeech]))
    /\ wsPc' = "flush_start"
    /\ UNCHANGED <<mainVars, conn, is_playing, audio_queue, lock, wPc, wChunk,
                   spawned, checked, senderVars, timelineVars, call>>

\* flush returning to its caller at the restart while a drain pass goes on
\* behind it for as long as it finds the queue non-empty.
FlushStart_drains_after_return ==
    /\ Alive /\ wsPc = "flush_start"
    /\ outStream' = "active"
    /\ lock' = IF audio_queue # <<>> THEN "flush" ELSE "free"
    /\ hist' = [hist EXCEPT !.outOps = Append(@, [op |-> "start", by |-> hist.nSpeech]),
                            !.flushes = @ + 1,
                            !.qAtReturn = Append(@, Len(audio_queue))]
    /\ wsPc' = IF audio_queue # <<>> THEN "flush_drain" ELSE "idle"
    /\ UNCHANGED <<mainVars, conn, is_playing, audio_queue, wPc, wChunk,
                   spawned, checked, senderVars, timelineVars, call>>

\* line 65: stream.start_stream(); the lock is released and flush returns.
FlushStart ==
    /\ Alive /\ wsPc = "flush_start"
    /\ outStream' = "active"
    /\ lock' = "free"
    /\ hist' = [hist EXCEPT !.outOps = Append(@, [op |-> "start", by |-> hist.nSpeech]),
                            !.flushes = @ + 1,
                            !.qAtReturn = Append(@, Len(audio_queue))]
    /\ wsPc' = "idle"
    /\ UNCHANGED <<mainVars, conn, is_playing, audio_queue, wPc, wChunk,
                   spawned, checked, senderVars, timelineVars, call>>

\* ---------------------------------------------------- Timeline (timeline.py)
\* A feed view is [cid, uri, repost]: feed_view.post.cid, feed_view.post.uri and
\* whether feed_view.reason names a reposter. A value decoded from JSON is
\* [t, n]: t is "absent", "int", "str" or "list", n the integer when t = "int".

Absent == [t |-> "absent", n |-> 0]
IntVal(n) == [t |-> "int", n |-> n]
StrVal == [t |-> "str", n |-> 0]
ListVal == [t |-> "list", n |-> 0]

\* What a provider call gives back: raised, or the text it returned, kept as
\* its kind and its lines [num, cid, repost].
Raised(why) == [raised |-> TRUE, kind |-> why, lines |-> <<>>]
Returned(kind, lines) == [raised |-> FALSE, kind |-> kind, lines |-> lines]

\* Python's seq[start:end] for integers start and end (negative ones count
\* from the end, both are clamped to the sequence).
PyIndex(len, i) ==
    IF i < 0 THEN (IF len + i < 0 THEN 0 ELSE len + i)
    ELSE (IF i > len THEN len ELSE i)
PySlice(seq, start, end) ==
    LET lo == PyIndex(Len(seq), start)
        hi == PyIndex(Len(seq), end)
    IN  IF lo < hi THEN SubSeq(seq, lo + 1, hi) ELSE <<>>

\* build_post_index with the keys counted from 0 (idx in place of idx + 1).
build_post_index_from_zero(index, feed) ==
    [k \in DOMAIN index \cup (0 .. Len(feed) - 1) |->
        IF k \in 0 .. Len(feed) - 1
        THEN [cid |-> feed[k + 1].cid, uri |-> feed[k + 1].uri]
        ELSE index[k]]

\* build_post_index: every entry of the timeline is (re)written under idx + 1;
\* keys of an earlier, longer timeline stay.
build_post_index(index, feed) ==
    [k \in DOMAIN index \cup (1 .. Len(feed)) |->
        IF k \in 1 .. Len(feed)
        THEN [cid |-> feed[k].cid, uri |-> feed[k].uri]
        ELSE index[k]]

\* find_feed_view: the position in the timeline of the first feed view whose
\* post cid is the indexed cid, 0 for None.
find_feed_view(post_number) ==
    IF post_number \notin DOMAIN post_index THEN 0
    ELSE LET hits == {i \in 1 .. Len(timeline) : timeline[i].cid = post_index[post_number].cid}
         IN  IF hits = {} THEN 0 ELSE CHOOSE i \in hits : \A j \in hits : i <= j

\* format_detailed_post: the repost line when feed_view.reason has `by`, and the
\* post's own content.
format_detailed_post(fv) == <<[num |-> 0, cid |-> fv.cid, repost |-> fv.repost]>>

\* format_minimal_post: "<post_number>. <author> - <text>".
format_minimal_post(fv, post_number) == [num |-> post_number, cid |-> fv.cid, repost |-> FALSE]

\* get_post_detail raising for a post it does not find, in place of lines 64-65.
get_post_detail_raising(v) ==
    IF ~initialized THEN Raised("not_initialized")
    ELSE IF v.t = "list" THEN Raised("TypeError")
    ELSE IF v.t # "int" THEN Raised("not_found")
    ELSE LET at == find_feed_view(v.n)
         IN  IF at = 0 THEN Raised("not_found")
             ELSE Returned("detail", format_detailed_post(timeline[at]))

\* get_post_detail(post_number), post_number a decoded JSON value.
get_post_detail(v) ==
    IF ~initialized THEN Raised("not_initialized")
    ELSE IF v.t = "list" THEN Raised("TypeError")     \* unhashable dict key
    ELSE IF v.t # "int" THEN Returned("not_found", <<>>)
    ELSE LET at == find_feed_view(v.n)
         IN  IF at = 0 THEN Returned("not_found", <<>>)
             ELSE Returned("detail", format_detailed_post(timeline[at]))

\* get_minimal_posts without the guard of lines 72-73.
get_minimal_posts_unguarded(v) ==
    IF v.t # "int" THEN Raised("TypeError")
    ELSE LET start == (v.n - 1) * page_size
             end == start + page_size
             posts == PySlice(timeline, start, end)
         IN  Returned("summary",
                      [i \in 1 .. Len(posts) |-> format_minimal_post(posts[i], start + (i - 1) + 1)])

\* get_minimal_posts taking its page number as 0-based (page in place of
\* page - 1 at line 75).
get_minimal_posts_zero_based(v) ==
    IF ~initialized THEN Raised("not_initialized")
    ELSE IF v.t # "int" THEN Raised("TypeError")
    ELSE LET start == v.n * page_size
             end == start + page_size
             posts == PySlice(timeline, start, end)
         IN  Returned("summary",
                      [i \in 1 .. Len(posts) |-> format_minimal_post(posts[i], start + (i - 1) + 1)])

\* get_minimal_posts(page), page a decoded JSON value.
get_minimal_posts(v) ==
    IF ~initialized THEN Raised("not_initialized")
    ELSE IF v.t # "int" THEN Raised("TypeError")      \* page - 1
    ELSE LET start == (v.n - 1) * page_size
             end == start + page_size
             posts == PySlice(timeline, start, end)
         IN  Returned("summary",
                      [i \in 1 .. Len(posts) |-> format_minimal_post(posts[i], start + (i - 1) + 1)])

\* ------------------------------------------- function bridge (cap_chat.py)
\* The `arguments` string of a function-call event, by what json.loads makes of
\* it: "invalid" (not JSON, or absent: json.loads raises), "scalar" (JSON, but no
\* object: a number, a string, null, a list) or "object" with its two fields.
InvalidJson == [json |-> "invalid", page |-> Absent, post_number |-> Absent]
ScalarJson == [json |-> "scalar", page |-> Absent, post_number |-> Absent]
ObjectJson(page, post_number) == [json |-> "object", page |-> page, post_number |-> post_number]

\* json.loads(arguments) raises.
JsonLoadsRaises(arguments) == arguments.json = "invalid"

\* args.get(key, 1) of a decoded object.
ArgsGet(args, key) == IF args[key].t = "absent" THEN IntVal(1) ELSE args[key]

Success(r) == [status |-> "success", kind |-> r.kind, lines |-> r.lines]
Error(why) == [status |-> "error", kind |-> why, lines |-> <<>>]

\* execute_function answering an unknown name as a success.
execute_function_unknown_ok(function_name, args) ==
    IF function_name = "get_page_summary"
    THEN IF args.json # "object" THEN Error("AttributeError")
         ELSE LET r == get_minimal_posts(ArgsGet(args, "page"))
              IN  IF r.raised THEN Error(r.kind) ELSE Success(r)
    ELSE IF function_name = "get_post_detail"
    THEN IF args.json # "object" THEN Error("AttributeError")
         ELSE LET r == get_post_detail(ArgsGet(args, "post_number"))
              IN  IF r.raised THEN Error(r.kind) ELSE Success(r)
    ELSE [status |-> "success", kind |-> "Unknown function", lines |-> <<>>]

\* execute_function without its try/except: a provider exception leaves it.
execute_function_uncaught(function_name, args) ==
    IF function_name = "get_page_summary"
    THEN IF args.json # "object" THEN Error("AttributeError")
         ELSE LET r == get_minimal_posts(ArgsGet(args, "page"))
              IN  IF r.raised THEN [status |-> "raised", kind |-> r.kind, lines |-> <<>>]
                  ELSE Success(r)
    ELSE IF function_name = "get_post_detail"
    THEN IF args.json # "object" THEN Error("AttributeError")
         ELSE LET r == get_post_detail(ArgsGet(args, "post_number"))
              IN  IF r.raised THEN [status |-> "raised", kind |-> r.kind, lines |-> <<>>]
                  ELSE Success(r)
    ELSE Error("Unknown function")

\* execute_function(function_name, args): every exception raised in the try
\* block becomes an error result.
execute_function(function_name, args) ==
    IF function_name = "get_page_summary"
    THEN IF args.json # "object" THEN Error("AttributeError")   \* args.get
         ELSE LET r == get_minimal_posts(ArgsGet(args, "page"))
              IN  IF r.raised THEN Error(r.kind) ELSE Success(r)
    ELSE IF function_name = "get_post_detail"
    THEN IF args.json # "object" THEN Error("AttributeError")
         ELSE LET r == get_post_detail(ArgsGet(args, "post_number"))
              IN  IF r.raised THEN Error(r.kind) ELSE Success(r)
    ELSE Error("Unknown function")

\* Whether the timeline provider is called and raises for this call.
ProviderRaises(function_name, args) ==
    /\ args.json = "object"
    /\ \/ function_name = "get_page_summary" /\ get_minimal_posts(ArgsGet(args, "page")).raised
       \/ function_name = "get_post_detail" /\ get_post_detail(ArgsGet(args, "post_number")).raised

\* ------------------------------------------------ AudioSender (cap_chat.py)

\* send_audio, line 91: `while self.running and not interrupted`.
CaptureCheck ==
    /\ Alive /\ capPc = "check"
    /\ capPc' = IF running /\ ~interrupted THEN "read" ELSE "exited"
    /\ UNCHANGED <<mainVars, conn, wsPc, playerVars, audio_sender, running, inStream,
                   timelineVars, call, hist>>

\* `hist` with an exception that send_audio caught at lines 99-100: what
\* raised, and how many inbound messages had been received by then.
Caught(what) ==
    Saw("caught", hist.caught \cup {[what |-> what, at |-> Len(hist.events)]})

\* lines 92-97: stream.read blocks until the microphone has a frame; on a closed
\* stream it raises, and lines 99-100 clear `running`.
CaptureRead ==
    /\ Alive /\ capPc = "read"
    /\ IF inStream = "active"
       THEN /\ hist.frames < MaxFrames
            /\ hist' = Saw("frames", hist.frames + 1)
            /\ capPc' = "send"
            /\ UNCHANGED running
       ELSE /\ running' = FALSE
            /\ capPc' = "exited"
            /\ hist' = Caught("read")
    /\ UNCHANGED <<mainVars, conn, wsPc, playerVars, audio_sender, inStream,
                   timelineVars, call>>

\* line 92 when the device fails under an open stream (an input error of
\* PortAudio): stream.read raises, lines 99-100 clear `running`, the thread ends.
CaptureReadRaises ==
    /\ Alive /\ capPc = "read" /\ inStream = "active"
    /\ running' = FALSE
    /\ capPc' = "exited"
    /\ hist' = Caught("read")
    /\ UNCHANGED <<mainVars, conn, wsPc, playerVars, audio_sender, inStream,
                   timelineVars, call>>

\* send_audio without its try/except: the exception of ws.send ends the thread
\* with `running` still set.
CaptureSend_uncaught ==
    /\ Alive /\ capPc = "send"
    /\ IF CanSend
       THEN /\ hist' = Sent(Msg("input_audio_buffer.append", "capture"))
            /\ capPc' = "check"
       ELSE /\ capPc' = "exited"
            /\ hist' = Saw("raised", hist.raised \cup {"send_audio"})
    /\ UNCHANGED <<mainVars, conn, wsPc, playerVars, audio_sender, running, inStream,
                   timelineVars, call>>

\* line 98: ws.send of input_audio_buffer.append, from the capture thread; when
\* it raises, lines 99-100 clear `running` and the thread ends.
CaptureSend ==
    /\ Alive /\ capPc = "send"
    /\ IF CanSend
       THEN /\ hist' = Sent(Msg("input_audio_buffer.append", "capture"))
            /\ capPc' = "check"
            /\ UNCHANGED running
       ELSE /\ running' = FALSE
            /\ capPc' = "exited"
            /\ hist' = Caught("send")
    /\ UNCHANGED <<mainVars, conn, wsPc, playerVars, audio_sender, inStream,
                   timelineVars, call>>

\* ---------------------------------------------- ChatStreaming (cap_chat.py)

\* run, lines 267-274: the WebSocketApp is created and its thread started.
RunStart ==
    /\ mainPc = "start"
    /\ mainPc' = "wait_connected"
    /\ conn' = "connecting"
    /\ wsPc' = "connecting"
    /\ UNCHANGED <<interrupted, playerVars, senderVars, timelineVars, call, hist>>

\* run, lines 275-277: the busy wait for ws.sock.connected ends.
RunConnected ==
    /\ mainPc = "wait_connected" /\ conn = "open"
    /\ mainPc' = "wait_interrupt"
    /\ UNCHANGED <<interrupted, conn, wsPc, playerVars, senderVars, timelineVars, call, hist>>

\* signal_handler, lines 23-26: SIGINT sets `interrupted` and sys.exit(0) raises
\* SystemExit in the main thread, wherever run is: the process exits, its daemon
\* threads with it. Lines 280-283 of run are never reached: `interrupted` is set
\* nowhere else.
Sigint ==
    /\ Alive
    /\ interrupted' = TRUE
    /\ mainPc' = "exited"
    /\ UNCHANGED <<conn, wsPc, playerVars, senderVars, timelineVars, call, hist>>

\* The transport connects and calls on_open.
Connect ==
    /\ Alive /\ wsPc = "connecting"
    /\ conn' = "open"
    /\ wsPc' = "on_open"
    /\ UNCHANGED <<mainVars, playerVars, senderVars, timelineVars, call, hist>>

\* on_open, lines 138-139: AudioSender(ws) opens the input device, start() sets
\* `running` and starts the capture thread.
OnOpenSender ==
    /\ Alive /\ wsPc = "on_open"
    /\ audio_sender' = "sender"
    /\ inStream' = "active"
    /\ running' = TRUE
    /\ capPc' = "check"
    /\ wsPc' = "on_open_initialize"
    /\ UNCHANGED <<mainVars, conn, playerVars, timelineVars, call, hist>>

\* on_open, line 138, when the input device cannot be opened: AudioSender.__init__
\* raises at line 79, audio_sender stays None, on_open ends there and the
\* transport reports the exception to on_error; the connection stays open.
OnOpenSenderRaises ==
    /\ Alive /\ wsPc = "on_open"
    /\ wsPc' = "idle"
    /\ hist' = Saw("raised", hist.raised \cup {"on_open"})
    /\ UNCHANGED <<mainVars, conn, playerVars, senderVars, timelineVars, call>>

\* Timeline.initialize, lines 20-38: login and fetch_timeline succeed with a
\* feed of the provider, the index is built, `initialized` is set.
Initialized(feed) ==
    /\ timeline' = feed
    /\ post_index' = build_post_index(post_index, feed)
    /\ initialized' = TRUE

\* on_open, lines 140-142, when initialize returns.
OnOpenInitialize(feeds) ==
    /\ Alive /\ wsPc = "on_open_initialize"
    /\ \E feed \in feeds : Initialized(feed)
    /\ hist' = Saw("fetches", hist.fetches + 1)
    /\ wsPc' = "on_open_update"
    /\ UNCHANGED <<mainVars, conn, playerVars, senderVars, call>>

\* on_open, line 142, when login or get_timeline raises: initialize re-raises,
\* on_open ends there and the transport reports the exception to on_error.
OnOpenInitializeRaises ==
    /\ Alive /\ wsPc = "on_open_initialize"
    /\ wsPc' = "idle"
    /\ hist' = Saw("raised", hist.raised \cup {"on_open"})
    /\ UNCHANGED <<mainVars, conn, playerVars, senderVars, timelineVars, call>>

\* on_open, line 186: ws.send of session.update.
OnOpenSessionUpdate ==
    /\ Alive /\ wsPc = "on_open_update"
    /\ hist' = Sent(Msg("session.update", "ws"))
    /\ wsPc' = "on_open_create"
    /\ UNCHANGED <<mainVars, conn, playerVars, senderVars, timelineVars, call>>

\* send_response_create, lines 126-134.
send_response_create == Sent(Msg("response.create", "ws"))

\* on_open, line 187.
OnOpenResponseCreate ==
    /\ Alive /\ wsPc = "on_open_create"
    /\ hist' = send_response_create
    /\ wsPc' = "idle"
    /\ UNCHANGED <<mainVars, conn, playerVars, senderVars, timelineVars, call>>

\* The transport handing over the next message while the handler of the last
\* one is still between its sends (a handler per message, on its own thread).
Receivable_reentrant ==
    /\ Alive /\ wsPc \in {"idle", "call_output", "call_create"} /\ conn = "open"
    /\ Len(hist.events) < MaxEvents

\* The transport hands the next inbound message to on_message (lines 190-192).
Receivable ==
    /\ Alive /\ wsPc = "idle" /\ conn = "open"
    /\ Len(hist.events) < MaxEvents

Received(type) == Append(hist.events, type)

\* on_message, lines 194-195: speech_started calls audio_player.flush().
OnSpeechStarted ==
    /\ Receivable
    /\ hist' = [hist EXCEPT !.events = Received("input_audio_buffer.speech_started"),
                            !.nSpeech = @ + 1]
    /\ wsPc' = "flush_acquire"
    /\ UNCHANGED <<mainVars, conn, playerVars, senderVars, timelineVars, call>>

\* on_message, lines 213-217: a non-empty delta is decoded and handed to a new
\* thread running play_audio. The chunk is named by its place among the deltas
\* and by the number of speech_started events received before it.
OnAudioDelta ==
    /\ Receivable
    /\ hist' = [hist EXCEPT !.events = Received("response.audio.delta"),
                            !.nDelta = @ + 1]
    /\ spawned' = spawned \cup {[id |-> hist.nDelta + 1, epoch |-> hist.nSpeech]}
    /\ UNCHANGED <<mainVars, conn, wsPc, is_playing, audio_queue, lock, outStream,
                   wPc, wChunk, checked, senderVars, timelineVars, call>>

\* The inbound messages on_message only prints or drops: a transcript (lines
\* 218-221), an added output item (222-229), an error event (230-231), a type
\* it does not know, such as response.done (232-233), and a message that is
\* not JSON, on which json.loads raises at line 191 (234-235).
UnhandledKinds ==
    {"response.audio_transcript.done", "response.output_item.added", "error",
     "response.done", "malformed"}

\* on_message treating an error event as fatal: it starts closing the session.
OnUnhandled_fatal_error(kind) ==
    /\ Receivable
    /\ hist' = Saw("events", Received(kind))
    /\ IF kind = "error"
       THEN conn' = "closed" /\ wsPc' = "on_close"
       ELSE UNCHANGED <<conn, wsPc>>
    /\ UNCHANGED <<mainVars, playerVars, senderVars, timelineVars, call>>

\* on_message for a message of such a kind: nothing but the print happens.
OnUnhandled(kind) ==
    /\ Receivable
    /\ hist' = Saw("events", Received(kind))
    /\ UNCHANGED <<mainVars, conn, wsPc, playerVars, senderVars, timelineVars, call>>

\* on_message, lines 196-200: a function call. An exception of json.loads
\* (line 199) or out of execute_function (line 200) is swallowed by lines 234-235
\* and the handler ends; else the result is kept for the two sends. The call_id
\* is the event's place in the session.
OnFunctionCall(function_name, arguments) ==
    /\ Receivable
    /\ Len(hist.calls) < MaxCalls
    /\ LET call_id == Len(hist.events) + 1
           result == IF JsonLoadsRaises(arguments) THEN NoOutput
                     ELSE execute_function(function_name, arguments)
           provider == IF JsonLoadsRaises(arguments) THEN "not called"
                       ELSE IF ProviderRaises(function_name, arguments) THEN "raised"
                       ELSE "no raise"
       IN  /\ hist' = [hist EXCEPT
                   !.events = Received("response.function_call_arguments.done"),
                   !.calls = Append(@, [call_id |-> call_id, name |-> function_name,
                                        arguments |-> arguments, provider |-> provider,
                                        result |-> result])]
           /\ IF JsonLoadsRaises(arguments) \/ result.status = "raised"
              THEN UNCHANGED <<wsPc, call>>
              ELSE /\ call' = [call_id |-> call_id, output |-> result]
                   /\ wsPc' = "call_output"
    /\ UNCHANGED <<mainVars, conn, playerVars, senderVars, timelineVars>>

\* on_message, lines 202-211: ws.send of the function_call_output item.
CallSendOutput ==
    /\ Alive /\ wsPc = "call_output"
    /\ hist' = Sent(OutputMsg(call.call_id, call.output))
    /\ wsPc' = "call_create"
    /\ UNCHANGED <<mainVars, conn, playerVars, senderVars, timelineVars, call>>

\* on_message, line 212: send_response_create().
CallSendCreate ==
    /\ Alive /\ wsPc = "call_create"
    /\ hist' = send_response_create
    /\ wsPc' = "idle"
    /\ call' = NoCall
    /\ UNCHANGED <<mainVars, conn, playerVars, senderVars, timelineVars>>

\* The transport gives up: the connection is refused (on_error, then on_close)
\* or an open connection ends. websocket-client closes the socket first and
\* calls on_close after it, on the ws thread, between two callbacks.
Teardown ==
    /\ Alive /\ wsPc \in {"connecting", "idle"}
    /\ conn' = "closed"
    /\ wsPc' = "on_close"
    /\ UNCHANGED <<mainVars, playerVars, senderVars, timelineVars, call, hist>>

\* on_close, lines 258-260, and AudioSender.stop, line 105.
OnClose ==
    /\ Alive /\ wsPc = "on_close"
    /\ IF audio_sender # "None"
       THEN /\ running' = FALSE
            /\ wsPc' = "stop_commit"
       ELSE /\ wsPc' = "close_flag"
            /\ UNCHANGED running
    /\ UNCHANGED <<mainVars, conn, playerVars, audio_sender, capPc, inStream,
                   timelineVars, call, hist>>

\* AudioSender.stop, lines 106-109: commit_buffer sends input_audio_buffer.commit,
\* then the input stream is stopped and closed and PyAudio terminated. When the
\* send raises, stop and on_close end there (the transport reports the exception
\* to on_error).
StopCommit ==
    /\ Alive /\ wsPc = "stop_commit"
    /\ IF CanSend
       THEN /\ hist' = [hist EXCEPT
                   !.sent = Append(@, Msg("input_audio_buffer.commit", "ws")),
                   !.inOps = @ \o <<"stop", "close", "terminate">>]
            /\ inStream' = "closed"
            /\ wsPc' = "close_flag"
       ELSE /\ hist' = Saw("raised", hist.raised \cup {"on_close"})
            /\ wsPc' = "closed"
            /\ UNCHANGED inStream
    /\ UNCHANGED <<mainVars, conn, playerVars, audio_sender, running, capPc,
                   timelineVars, call>>

\* AudioPlayer.close, line 68.
PlayerCloseFlag ==
    /\ Alive /\ wsPc = "close_flag"
    /\ is_playing' = FALSE
    /\ wsPc' = "close_join"
    /\ UNCHANGED <<mainVars, conn, audio_queue, lock, outStream, wPc, wChunk,
                   spawned, checked, senderVars, timelineVars, call, hist>>

\* AudioPlayer.close going on to release the device without the join of lines
\* 69-70.
PlayerCloseJoin_no_join ==
    /\ Alive /\ wsPc = "close_join"
    /\ wsPc' = "close_release"
    /\ UNCHANGED <<mainVars, conn, playerVars, senderVars, timelineVars, call, hist>>

\* AudioPlayer.close, lines 69-70: join returns once the worker has ended.
PlayerCloseJoin ==
    /\ Alive /\ wsPc = "close_join" /\ wPc = "dead"
    /\ wsPc' = "close_release"
    /\ UNCHANGED <<mainVars, conn, playerVars, senderVars, timelineVars, call, hist>>

\* AudioPlayer.close, lines 71-73: stop_stream, close, terminate; on_close returns.
PlayerCloseRelease ==
    /\ Alive /\ wsPc = "close_release"
    /\ outStream' = "closed"
    /\ hist' = Saw("outOps", hist.outOps \o <<[op |-> "stop", by |-> 0],
                                               [op |-> "close", by |-> 0],
                                               [op |-> "terminate", by |-> 0]>>)
    /\ wsPc' = "closed"
    /\ UNCHANGED <<mainVars, conn, is_playing, audio_queue, lock, wPc, wChunk,
                   spawned, checked, senderVars, timelineVars, call>>

\* ----------------------------------------------------------- the provider
\* Feeds the provider may return: n posts with cids 1 .. n, newest first, where
\* entry d (if d > 0) is a repost of the post of entry s < d.
Feed(n, s, d) ==
    [i \in 1 .. n |->
        IF i = d THEN [cid |-> s, uri |-> s, repost |-> TRUE]
        ELSE [cid |-> i, uri |-> i, repost |-> FALSE]]

Feeds ==
    {Feed(n, 0, 0) : n \in 0 .. MaxPosts}
        \cup {Feed(n, 1, d) : n \in 2 .. MaxPosts, d \in 2 .. MaxPosts}
        \cup {Feed(n, d - 1, d) : n \in 2 .. MaxPosts, d \in 2 .. MaxPosts}

\* ------------------------------------------------------------ specification
Init ==
    /\ mainPc = "start"
    /\ interrupted = FALSE
    /\ conn = "none"
    /\ wsPc = "none"
    /\ is_playing = TRUE
    /\ audio_queue = <<>>
    /\ lock = "free"
    /\ outStream = "active"
    /\ wPc = "check"
    /\ wChunk = NoChunk
    /\ spawned = {}
    /\ checked = {}
    /\ audio_sender = "None"
    /\ running = FALSE
    /\ capPc = "unstarted"
    /\ inStream = "none"
    /\ initialized = FALSE
    /\ timeline = <<>>
    /\ post_index = <<>>
    /\ call = NoCall
    /\ hist = [sent |-> <<>>, written |-> <<>>, events |-> <<>>, calls |-> <<>>,
               nSpeech |-> 0, nDelta |-> 0, flushes |-> 0, qAtReturn |-> <<>>,
               outOps |-> <<>>, inOps |-> <<>>, frames |-> 0, raised |-> {},
               fetches |-> 0, puts |-> <<>>, caught |-> {}, discarded |-> <<>>]

\* Timeline.initialize called on the Timeline object itself, as timeline_test.py
\* and timeline_nav.py do; a caller may call it again.
TimelineInitialize ==
    /\ hist.fetches < MaxFetches
    /\ \E feed \in Feeds : Initialized(feed)
    /\ hist' = Saw("fetches", hist.fetches + 1)
    /\ UNCHANGED <<mainVars, conn, wsPc, playerVars, senderVars, call>>

\* Some feeds of the provider, for a session: empty, a post and its repost, and
\* the longest.
SessionFeeds == {Feed(0, 0, 0), Feed(2, 1, 2), Feed(MaxPosts, 0, 0)}

\* The function-call events of a session: every name with every arguments string.
FunctionNames == {"get_page_summary", "get_post_detail", "get_weather"}
Arguments ==
    {InvalidJson, ScalarJson, ObjectJson(Absent, Absent),
     ObjectJson(IntVal(1), Absent), ObjectJson(StrVal, Absent),
     ObjectJson(Absent, IntVal(1)), ObjectJson(Absent, IntVal(999)),
     ObjectJson(Absent, ListVal)}

\* The feed of a provider whose timeline holds one post, and the arguments
\* string of a call asking for page 1.
OneFeed == {Feed(1, 0, 0)}
PageOneArguments == ObjectJson(IntVal(1), Absent)

\* The main thread: run, and SIGINT.
MainThread == RunStart \/ RunConnected \/ Sigint

\* The ws thread while the connection opens and closes.
WsOpen == Connect \/ OnOpenSender \/ OnOpenSessionUpdate \/ OnOpenResponseCreate
WsClose ==
    \/ Teardown \/ OnClose \/ StopCommit
    \/ PlayerCloseFlag \/ PlayerCloseJoin \/ PlayerCloseRelease

\* Playback: the session receives audio deltas and speech_started events; the
\* worker, the play_audio threads and flush interleave freely. The capture
\* thread, which shares no state with the player, is left unscheduled.
NextPlayback ==
    \/ MainThread \/ WsOpen \/ WsClose
    \/ OnOpenSenderRaises
    \/ OnOpenInitialize(OneFeed)
    \/ OnSpeechStarted \/ OnAudioDelta
    \/ FlushAcquire \/ FlushDrain \/ FlushStop \/ FlushStart
    \/ WorkerCheck \/ WorkerGet \/ WorkerAcquire \/ WorkerWrite
    \/ (\E c \in spawned : PlayCheck(c)) \/ (\E c \in checked : PlayPut(c))

SpecPlayback == Init /\ [][NextPlayback]_vars

\* Playback while the process lives, with the worker and the ws thread inside
\* flush scheduled fairly: each takes its next step when it can (the worker
\* its write once the lock is free for good). The main thread stays in its
\* wait loops, which touch nothing of the player, and no SIGINT comes. Inbound
\* messages, the play_audio threads and the transport are not forced.
NextDrain ==
    \/ RunStart \/ WsOpen \/ WsClose
    \/ OnOpenSenderRaises
    \/ OnOpenInitialize(OneFeed)
    \/ OnSpeechStarted \/ OnAudioDelta
    \/ FlushAcquire \/ FlushDrain \/ FlushStop \/ FlushStart
    \/ WorkerCheck \/ WorkerGet \/ WorkerAcquire \/ WorkerWrite
    \/ (\E c \in spawned : PlayCheck(c)) \/ (\E c \in checked : PlayPut(c))

SpecDrain ==
    /\ Init /\ [][NextDrain]_vars
    /\ WF_vars(WorkerCheck \/ WorkerGet \/ WorkerAcquire \/ WorkerWrite)
    /\ WF_vars(FlushAcquire \/ FlushDrain \/ FlushStop \/ FlushStart)

\* The session's life: opening, the capture thread beside the ws thread,
\* function calls and unhandled events, closing, SIGINT. No audio arrives, and
\* the playback worker idles.
NextSession ==
    \/ MainThread \/ WsOpen \/ WsClose
    \/ OnOpenInitialize(OneFeed) \/ OnOpenInitializeRaises
    \/ OnUnhandled("error")
    \/ (\E a \in {InvalidJson, PageOneArguments} :
            OnFunctionCall("get_page_summary", a))
    \/ CallSendOutput \/ CallSendCreate
    \/ WorkerCheck \/ WorkerGet
    \/ CaptureCheck \/ CaptureRead \/ CaptureReadRaises \/ CaptureSend

SpecSession == Init /\ [][NextSession]_vars

\* The function bridge: every function-call event against every session feed,
\* on the ws thread alone (the other threads share none of the state it uses
\* and are left unscheduled).
NextBridge ==
    \/ RunStart \/ WsOpen
    \/ OnOpenInitialize(SessionFeeds) \/ OnOpenInitializeRaises
    \/ (\E n \in FunctionNames, a \in Arguments : OnFunctionCall(n, a))
    \/ CallSendOutput \/ CallSendCreate
    \/ Teardown \/ OnClose \/ StopCommit

SpecBridge == Init /\ [][NextBridge]_vars

\* The session's life with the threads scheduled fairly: the main thread, the
\* ws thread's callbacks, the playback worker and the capture thread each take
\* their next step when they can. The transport's and the user's steps
\* (connecting, inbound messages, the connection ending, SIGINT) are not forced.
SpecSessionFair ==
    /\ SpecSession
    /\ WF_vars(RunConnected)
    /\ WF_vars(OnOpenSender \/ OnOpenInitialize(OneFeed) \/ OnOpenSessionUpdate
                  \/ OnOpenResponseCreate \/ CallSendOutput \/ CallSendCreate
                  \/ OnClose \/ StopCommit
                  \/ PlayerCloseFlag \/ PlayerCloseJoin \/ PlayerCloseRelease)
    /\ WF_vars(WorkerCheck \/ WorkerGet)
    /\ WF_vars(CaptureCheck \/ CaptureRead \/ CaptureReadRaises \/ CaptureSend)

\* Routing: every kind of inbound message on the ws thread, after an on_open
\* that configured the session or one that raised, with the play_audio threads
\* beside it. The worker and the capture thread are left unscheduled.
NextRouting ==
    \/ RunStart \/ WsOpen
    \/ OnOpenSenderRaises
    \/ OnOpenInitialize(OneFeed) \/ OnOpenInitializeRaises
    \/ (\E kind \in UnhandledKinds : OnUnhandled(kind))
    \/ OnFunctionCall("get_page_summary", PageOneArguments)
    \/ CallSendOutput \/ CallSendCreate
    \/ OnAudioDelta
    \/ (\E c \in spawned : PlayCheck(c)) \/ (\E c \in checked : PlayPut(c))
    \/ OnSpeechStarted
    \/ FlushAcquire \/ FlushDrain \/ FlushStop \/ FlushStart

SpecRouting == Init /\ [][NextRouting]_vars

\* The Timeline object on its own.
NextTimeline == TimelineInitialize

SpecTimeline == Init /\ [][NextTimeline]_vars

\* ------------------------------------------------------------------ claims
\* The messages the ws thread sent, in order (the capture thread's appends
\* left out).
WsSent == SelectSeq(hist.sent, LAMBDA m : m.by = "ws")

\* The places in WsSent of the function_call_output items carrying call_id.
OutputsFor(call_id) ==
    {j \in DOMAIN WsSent :
        WsSent[j].type = "function_call_output" /\ WsSent[j].call_id = call_id}

\* The function_call_output for call_id was sent, and a response.create right
\* after it.
AnsweredOnce(call_id) ==
    /\ Cardinality(OutputsFor(call_id)) = 1
    /\ \A j \in OutputsFor(call_id) :
          j < Len(WsSent) /\ WsSent[j + 1].type = "response.create"

NumberSent(type) == Cardinality({j \in DOMAIN WsSent : WsSent[j].type = type})

\* The ws thread is not between the two sends of on_open or of a function call.
HandlerDone == wsPc \notin {"on_open_create", "call_output", "call_create"}

KnownFunctions == {"get_page_summary", "get_post_detail"}

\* C1: once on_message has handled them, every function-call event, whatever its
\* name and arguments, has exactly one function_call_output with its call_id on
\* the wire, each followed at once by a response.create, and there is one
\* response.create per function call beside the initial one.
C1_EveryCallAnswered ==
    HandlerDone =>
        /\ \A i \in DOMAIN hist.calls : AnsweredOnce(hist.calls[i].call_id)
        /\ NumberSent("response.create") = NumberSent("session.update") + Len(hist.calls)

\* C6: execute_function, called with a name other than get_page_summary and
\* get_post_detail and any decoded arguments, returns (it does not raise) a
\* result whose status is error.
C6_UnknownFunctionIsError ==
    \A i \in DOMAIN hist.calls :
        LET c == hist.calls[i]
        IN  (c.name \notin KnownFunctions /\ ~JsonLoadsRaises(c.arguments))
                => c.result.status = "error"

\* C6's case: an unknown function was called with decoded arguments and its
\* error result went out.
C6_Witness ==
    \E i \in DOMAIN hist.calls :
        LET c == hist.calls[i]
        IN  /\ c.name \notin KnownFunctions
            /\ c.arguments.json = "object"
            /\ \E j \in OutputsFor(c.call_id) : WsSent[j].output.status = "error"

\* C7: when the timeline provider raises while serving a call, the result is
\* an error carrying the exception's message, on_message goes on to send it
\* as the call's function_call_output and then a response.create, and the
\* ws thread is back waiting for the next event.
C7_ProviderExceptionIsErrorResult ==
    \A i \in DOMAIN hist.calls :
        LET c == hist.calls[i]
        IN  c.provider = "raised" =>
                /\ c.result.status = "error"
                /\ c.result.kind \in {"not_initialized", "TypeError"}
                /\ IF call.call_id = c.call_id
                   THEN wsPc \in {"call_output", "call_create"}
                   ELSE /\ AnsweredOnce(c.call_id)
                        /\ \A j \in OutputsFor(c.call_id) : WsSent[j].output = c.result

\* C7's case: the provider raised in the first call, which was answered, and a
\* later event was handled to its end.
C7_Witness ==
    /\ Len(hist.calls) >= 2
    /\ hist.calls[1].provider = "raised"
    /\ AnsweredOnce(hist.calls[1].call_id)
    /\ AnsweredOnce(hist.calls[2].call_id)
    /\ wsPc = "idle"

\* The calls of get_post_detail for post 999 against a fetched timeline.
OutOfRangeCalls ==
    {i \in DOMAIN hist.calls :
        /\ hist.calls[i].name = "get_post_detail"
        /\ hist.calls[i].arguments = ObjectJson(Absent, IntVal(999))
        /\ initialized}

\* C8 as claimed: a get_post_detail call for a post number out of the fetched
\* timeline's range produces a function_call_output whose status is error, and
\* a response.create after it.
C8_OutOfRangeDetailIsError ==
    HandlerDone =>
        \A i \in OutOfRangeCalls :
            /\ hist.calls[i].result.status = "error"
            /\ AnsweredOnce(hist.calls[i].call_id)

\* C8 as amended: the output's status is success and its message is the
\* provider's "No post found with number N." text; the response.create follows.
C8_OutOfRangeDetailIsNotFoundText ==
    HandlerDone =>
        \A i \in OutOfRangeCalls :
            /\ hist.calls[i].result.status = "success"
            /\ hist.calls[i].result.kind = "not_found"
            /\ AnsweredOnce(hist.calls[i].call_id)
            /\ \A j \in OutputsFor(hist.calls[i].call_id) :
                  WsSent[j].output = hist.calls[i].result

\* C8's case: such a call was handled to its end against a timeline with posts.
C8_Witness ==
    /\ HandlerDone
    /\ OutOfRangeCalls # {}
    /\ Len(timeline) > 0

\* C2 (barge-in): no chunk is written to the device once a flush triggered by
\* a speech_started event that came after the chunk's delta has returned. A
\* chunk's epoch counts the speech_started events received before its delta; a
\* write's `flushed` counts the flushes that had returned when it was made.
C2_NoStaleAudioAfterFlush ==
    \A i \in DOMAIN hist.written : hist.written[i].flushed <= hist.written[i].epoch

\* C3: two chunks received with no speech_started between them are written to
\* the device in the order their deltas were received.
C3_WrittenInArrivalOrder ==
    \A i, j \in DOMAIN hist.written :
        (i < j /\ hist.written[i].epoch = hist.written[j].epoch)
            => hist.written[i].id < hist.written[j].id

\* The places in the output device's log of operation op made by flush k.
OutOpsOf(op, k) ==
    {i \in DOMAIN hist.outOps : hist.outOps[i] = [op |-> op, by |-> k]}

\* C10: every speech_started event handled to its end has caused exactly one
\* flush, and when that flush returned the queue was empty and the output
\* device had been stopped exactly once and then started exactly once by it.
C10_FlushEmptiesQueueRestartsOnce ==
    /\ wsPc = "idle" => hist.flushes = hist.nSpeech
    /\ \A k \in 1 .. hist.flushes :
          /\ hist.qAtReturn[k] = 0
          /\ Cardinality(OutOpsOf("stop", k)) = 1
          /\ Cardinality(OutOpsOf("start", k)) = 1
          /\ \A i \in OutOpsOf("stop", k), j \in OutOpsOf("start", k) : j = i + 1

\* The enqueue that put chunk id on the queue.
PutOf(id) == CHOOSE i \in DOMAIN hist.puts : hist.puts[i].id = id

\* No enqueue took effect from the call of flush k to the return of flush k + 1.
NoPutBetween(k) ==
    \A i \in DOMAIN hist.puts :
        ~(hist.puts[i].nSpeech >= k /\ hist.puts[i].flushes <= k)

\* C11 (flush is idempotent): when flush k + 1 follows flush k with no enqueue
\* between them, the queue is empty when flush k + 1 returns and no chunk
\* enqueued before it returned is written to the device after it.
C11_SecondFlushSilent ==
    \A k \in 1 .. hist.flushes - 1 :
        NoPutBetween(k) =>
            /\ hist.qAtReturn[k + 1] = 0
            /\ \A i \in DOMAIN hist.written :
                  hist.written[i].flushed >= k + 1
                      => hist.puts[PutOf(hist.written[i].id)].flushes >= k + 1

\* C19 (flush is atomic with respect to enqueue): the drain, the stop and the
\* restart run with the lock held, no enqueue takes effect while flush holds
\* it, and the queue is empty when the device is restarted.
C19_FlushAtomicWithEnqueue ==
    /\ wsPc \in {"flush_drain", "flush_stop", "flush_start"} => lock = "flush"
    /\ \A i \in DOMAIN hist.puts : hist.puts[i].lock # "flush"
    /\ \A k \in 1 .. hist.flushes : hist.qAtReturn[k] = 0

\* C20: once close() has cleared is_playing the worker begins no device write:
\* every write was begun with the flag set.
C20_NoWriteAfterFlagCleared ==
    \A i \in DOMAIN hist.written : hist.written[i].playing

\* The shutdown the claims C4 and C5 speak of is over: on_close has returned
\* or raised.
OnCloseOver == wsPc = "closed"

\* C4: after the close signal the capture stop and the playback close have
\* each taken effect exactly once, no device was stopped, closed or
\* terminated twice, and nothing was raised.
C4_ShutdownExactlyOnce ==
    /\ Cardinality(OutOpsOf("close", 0)) <= 1
    /\ Len(hist.inOps) <= 3
    /\ OnCloseOver =>
          /\ "on_close" \notin hist.raised
          /\ Cardinality(OutOpsOf("close", 0)) = 1
          /\ audio_sender # "None" => hist.inOps = <<"stop", "close", "terminate">>

\* C5: once the session is closed the capture loop has been told to stop, the
\* playback worker has stopped and both devices are released.
C5_ClosedMeansStoppedAndReleased ==
    OnCloseOver =>
        /\ ~running
        /\ wPc = "dead"
        /\ outStream = "closed"
        /\ inStream \in {"none", "closed"}

\* The inbound messages of a kind that on_message has been handed.
NumberReceived(kind) ==
    Cardinality({i \in DOMAIN hist.events : hist.events[i] = kind})

\* C12: at most one response.create is outstanding: the response.create
\* requests sent exceed the response.done events received by at most one.
C12_AtMostOneResponseOutstanding ==
    NumberSent("response.create") - NumberReceived("response.done") <= 1

\* C13: on_open sends one session.update and then one response.create, and
\* on_message routes no inbound event before both have been sent.
C13_ConfiguredBeforeRouting ==
    /\ NumberSent("session.update") <= 1
    /\ hist.events # <<>> =>
          /\ Len(WsSent) >= 2
          /\ WsSent[1].type = "session.update"
          /\ WsSent[2].type = "response.create"
          /\ NumberSent("session.update") = 1

\* C14: AudioSender.stop clears `running`, then sends the commit, then releases
\* the input device, and once the session's close is over exactly one
\* input_audio_buffer.commit has been sent.
C14_StopOrderedOneCommit ==
    /\ NumberSent("input_audio_buffer.commit") <= 1
    /\ NumberSent("input_audio_buffer.commit") = 1 => ~running
    /\ hist.inOps # <<>> => NumberSent("input_audio_buffer.commit") = 1
    /\ (OnCloseOver /\ audio_sender # "None")
          => NumberSent("input_audio_buffer.commit") = 1

\* A step in which on_message was handed a message it only prints or drops.
UnhandledStep ==
    /\ Len(hist'.events) = Len(hist.events) + 1
    /\ hist'.events[Len(hist'.events)] \in UnhandledKinds

\* C15: handling an error event, a transcript, an unknown kind or a malformed
\* message sends nothing, leaves the playback queue, the play_audio threads
\* and the output device as they were, does not start closing, and leaves the
\* ws thread ready for the next message on the open connection.
C15_UnhandledEventsChangeNothing ==
    [][UnhandledStep =>
          /\ hist'.sent = hist.sent
          /\ audio_queue' = audio_queue /\ spawned' = spawned /\ checked' = checked
          /\ outStream' = outStream /\ hist'.outOps = hist.outOps
          /\ is_playing' = is_playing /\ running' = running
          /\ conn' = "open" /\ wsPc' = "idle" /\ mainPc' = mainPc]_vars

\* C15's case: after an audio delta a malformed message was handled, the chunk
\* is queued, and the function call that came after them was answered.
C15_Witness ==
    /\ Len(hist.events) = 3
    /\ hist.events[1] = "response.audio.delta"
    /\ hist.events[2] = "malformed"
    /\ \E i \in DOMAIN hist.calls :
          hist.calls[i].call_id = 3 /\ AnsweredOnce(3)
    /\ Len(audio_queue) = 1

\* C16: when SIGINT has ended the process of a running session, the closing
\* transition was made first: the connection is closed, capture is stopped,
\* playback is closed and both devices are released.
C16_InterruptClosesBeforeExit ==
    (mainPc = "exited" /\ hist.sent # <<>>) =>
        /\ conn = "closed"
        /\ ~running /\ ~is_playing
        /\ outStream = "closed"
        /\ inStream \in {"none", "closed"}

\* C17: after the transport has dropped or refused the connection, run
\* returns and the process ends, without SIGINT.
C17_TransportCloseEndsRun == (conn = "closed") ~> (mainPc = "exited")

\* The arguments strings that are bad for the two known functions: not JSON
\* (or absent), no object, an object without the expected field, and a field
\* of the wrong type.
BadArguments ==
    {InvalidJson, ScalarJson, ObjectJson(Absent, Absent),
     ObjectJson(StrVal, Absent), ObjectJson(Absent, ListVal)}

\* C18: a call of a known function with bad arguments is answered with one
\* function_call_output for its call_id whose status is error.
C18_BadArgumentsAnsweredWithError ==
    HandlerDone =>
        \A i \in DOMAIN hist.calls :
            (hist.calls[i].name \in KnownFunctions /\ hist.calls[i].arguments \in BadArguments)
                => /\ AnsweredOnce(hist.calls[i].call_id)
                   /\ \A j \in OutputsFor(hist.calls[i].call_id) :
                         WsSent[j].output.status = "error"

\* The ws thread is inside an operation of flush or of close on the output
\* stream: stop_stream or start_stream of flush, or close's stop and close.
WsOnStream == wsPc \in {"flush_stop", "flush_start", "close_release"}

\* C21: the worker's write, flush's stop and start and close's stop and close
\* never run at the same time on the output stream, and once the stream is
\* closed no write, stop or start is issued on it: the log of the device ends
\* with close's own operations.
C21_OutputDeviceExclusive ==
    /\ ~(wPc = "write" /\ WsOnStream)
    /\ wPc = "write" => (lock = "worker" /\ outStream = "active")
    /\ wsPc \in {"flush_stop", "flush_start"} => (lock = "flush" /\ outStream # "closed")
    /\ \A i \in DOMAIN hist.outOps :
          hist.outOps[i].op = "close"
              => /\ i = Len(hist.outOps) - 1
                 /\ hist.outOps[Len(hist.outOps)].op = "terminate"
    /\ outStream = "closed" => wPc = "dead"

\* C21's case: a chunk was written, a flush stopped and restarted the device,
\* and close has released it.
C21_Witness ==
    /\ hist.written # <<>>
    /\ hist.flushes >= 1
    /\ outStream = "closed"
    /\ OutOpsOf("close", 0) # {}

\* C22: every outbound message is sent by the session's own thread, the
\* ws thread on which the callbacks run; the capture thread sends nothing.
C22_OnlyControllerSends ==
    \A i \in DOMAIN hist.sent : hist.sent[i].by = "ws"

\* The places in WsSent of the function_call_output items.
Outputs == {j \in DOMAIN WsSent : WsSent[j].type = "function_call_output"}

\* C23: events are handled one at a time in receipt order: the handler between
\* its two sends is the handler of the last event received, a call whose
\* handler produced a result has its output and its response.create on the
\* wire before the next event is received, and the outputs are on the wire in
\* the order of their function-call events.
C23_EventsHandledInOrder ==
    /\ wsPc \in {"call_output", "call_create"} => call.call_id = Len(hist.events)
    /\ \A i \in DOMAIN hist.calls :
          LET c == hist.calls[i]
          IN  (c.call_id < Len(hist.events) /\ c.result.status \in {"success", "error"})
                  => AnsweredOnce(c.call_id)
    /\ \A j, k \in Outputs : j < k => WsSent[j].call_id < WsSent[k].call_id

\* C23's case: two function-call events in a row were answered, the first
\* before the second.
C23_Witness ==
    /\ Len(hist.calls) = 2
    /\ hist.calls[1].call_id = 1 /\ hist.calls[2].call_id = 2
    /\ AnsweredOnce(1) /\ AnsweredOnce(2)
    /\ \A j \in OutputsFor(1), k \in OutputsFor(2) : j < k
    /\ wsPc = "idle"

\* The input_audio_buffer.append messages the capture thread has sent.
CaptureSent == SelectSeq(hist.sent, LAMBDA m : m.by = "capture")

\* A step in which stream.read or ws.send raised inside the capture loop.
CaptureFailStep == capPc \in {"read", "send"} /\ capPc' = "exited"

\* C24: a read or send failure in the capture loop clears `running` and ends
\* the capture thread with no exception leaving it, the step changes nothing
\* of the ws thread, the connection, the player or the main thread, and a
\* capture thread that has ended stays ended and sends no further append.
C24_CaptureFailureEndsOnlyCapture ==
    [][/\ CaptureFailStep =>
             /\ ~running'
             /\ hist'.raised = hist.raised
             /\ hist'.sent = hist.sent /\ hist'.events = hist.events
             /\ UNCHANGED <<mainVars, conn, wsPc, playerVars, timelineVars, call>>
       /\ capPc = "exited" => (capPc' = "exited" /\ CaptureSent' = CaptureSent)]_vars

\* C24's case: stream.read raised in the capture loop, and a function-call
\* event received after that was answered.
C24_Witness ==
    /\ capPc = "exited"
    /\ \E f \in hist.caught :
          /\ f.what = "read"
          /\ \E i \in DOMAIN hist.calls :
                hist.calls[i].call_id > f.at /\ AnsweredOnce(hist.calls[i].call_id)

\* Where a chunk may be: enqueued, on the queue, in the worker's hands,
\* written to the device, discarded by a flush.
Enqueued == {hist.puts[i].id : i \in DOMAIN hist.puts}
OnQueue == {audio_queue[i].id : i \in DOMAIN audio_queue}
Held == IF wChunk = NoChunk THEN {} ELSE {wChunk.id}
WrittenIds == {hist.written[i].id : i \in DOMAIN hist.written}
DiscardedIds == {hist.discarded[i].id : i \in DOMAIN hist.discarded}

\* Every enqueued chunk is in exactly one place, and was written at most once.
ChunksConserved ==
    /\ Enqueued = OnQueue \cup Held \cup WrittenIds \cup DiscardedIds
    /\ Cardinality(OnQueue) + Cardinality(Held) + Len(hist.written) + Len(hist.discarded)
          = Len(hist.puts)
    /\ Len(audio_queue) = Cardinality(OnQueue)

\* C25: no chunk is dropped silently: an enqueued chunk is on the queue, held
\* by the worker, written once or discarded by a flush, and, with the worker
\* scheduled fairly, it is in the end written or discarded by a flush, unless
\* the player is closed first.
C25_NoChunkSilentlyDropped ==
    /\ []ChunksConserved
    /\ \A id \in 1 .. MaxEvents :
          (id \in Enqueued) ~> (id \in WrittenIds \cup DiscardedIds \/ ~is_playing)

\* C25's case: of two chunks enqueued on the open player one was discarded by
\* a flush and the other written.
C25_Witness ==
    /\ is_playing
    /\ Len(hist.puts) = 2
    /\ Len(hist.written) = 1
    /\ Len(hist.discarded) = 1

\* C26: a chunk enqueued after a flush returned is not discarded by that flush
\* (only by a later one) and is written only after that flush's restart of
\* the device.
C26_EnqueuedAfterFlushSurvivesIt ==
    /\ \A i \in DOMAIN hist.discarded :
          hist.discarded[i].by > hist.puts[PutOf(hist.discarded[i].id)].flushes
    /\ \A i \in DOMAIN hist.written :
          LET after == hist.puts[PutOf(hist.written[i].id)].flushes
          IN  /\ hist.written[i].flushed >= after
              /\ \A k \in 1 .. after : OutOpsOf("start", k) # {}

\* C26's case: a chunk enqueued after a flush returned was written, and
\* another, enqueued before that flush was called, was discarded by it.
C26_Witness ==
    /\ \E i \in DOMAIN hist.written :
          hist.puts[PutOf(hist.written[i].id)].flushes >= 1
    /\ \E i \in DOMAIN hist.discarded :
          hist.puts[PutOf(hist.discarded[i].id)].nSpeech = 0

\* The 1-based page numbers asked for: every page of the longest feed and some
\* past its end.
Pages == 1 .. (MaxPosts \div page_size) + 3

\* C27: on an initialized timeline of N posts get_minimal_posts(p), p >= 1,
\* returns one line for each of the entries (p-1)*10+1 .. min(p*10, N), in
\* that order, each labelled with its 1-based position, at most 10 of them,
\* and each label is the key under which build_post_index indexed the entry.
C27_PageIsTheTenEntriesOfItsNumber ==
    initialized =>
        \A p \in Pages :
            LET r == get_minimal_posts(IntVal(p))
                first == (p - 1) * page_size + 1
                last == IF p * page_size < Len(timeline) THEN p * page_size ELSE Len(timeline)
                n == IF last >= first THEN last - first + 1 ELSE 0
            IN  /\ ~r.raised
                /\ Len(r.lines) = n /\ n <= page_size
                /\ \A i \in 1 .. n :
                      LET k == first + i - 1
                      IN  /\ r.lines[i].num = k
                          /\ r.lines[i].cid = timeline[k].cid
                          /\ k \in DOMAIN post_index
                          /\ post_index[k].cid = timeline[k].cid

\* C27's case: a fetched timeline longer than one page and shorter than two:
\* page 1 is full, page 2 holds the rest, page 3 is empty.
C27_Witness ==
    /\ initialized
    /\ Len(timeline) > page_size /\ Len(timeline) < 2 * page_size
    /\ Len(get_minimal_posts(IntVal(1)).lines) = page_size
    /\ Len(get_minimal_posts(IntVal(2)).lines) = Len(timeline) - page_size
    /\ get_minimal_posts(IntVal(2)).lines[1].num = page_size + 1
    /\ get_minimal_posts(IntVal(3)).lines = <<>>

\* C30: on an initialized timeline find_feed_view(k), for every k from 1 to
\* the length of the timeline, is the feed entry at position k, the entry that
\* get_minimal_posts labels k, also when several entries carry one cid.
C30_FindFeedViewIsPositionK ==
    initialized => \A k \in 1 .. Len(timeline) : find_feed_view(k) = k

\* C28: the playback queue is bounded by a fixed capacity: when a session
\* receives more audio deltas than the capacity (here MaxEvents of them), the
\* queue holds fewer chunks than deltas were received.
C28_QueueBounded == Len(audio_queue) < MaxEvents

\* C31: after any sequence of successful fetches post_index has exactly the
\* keys 1 .. len(timeline), and key k holds the cid and uri of entry k: nothing
\* of an earlier fetch is left.
C31_IndexIsExactlyTheTimeline ==
    initialized =>
        /\ DOMAIN post_index = 1 .. Len(timeline)
        /\ \A k \in 1 .. Len(timeline) :
              post_index[k] = [cid |-> timeline[k].cid, uri |-> timeline[k].uri]

\* The decoded values a provider call may be given.
ProviderArgs == {IntVal(1), IntVal(999), StrVal, ListVal}

\* C32: until initialize has succeeded, get_minimal_posts and get_post_detail
\* raise whatever they are given, the timeline and the index are as
\* constructed, and every execution of get_page_summary or get_post_detail
\* yields a result of status error; and `initialized` is set only after a
\* fetch succeeded, with every entry of the timeline indexed under its number.
C32_UninitializedProviderRaises ==
    /\ ~initialized =>
          /\ \A v \in ProviderArgs :
                get_minimal_posts(v).raised /\ get_post_detail(v).raised
          /\ timeline = <<>> /\ post_index = <<>>
          /\ \A i \in DOMAIN hist.calls :
                LET c == hist.calls[i]
                IN  (c.name \in KnownFunctions /\ ~JsonLoadsRaises(c.arguments))
                        => c.result.status = "error"
    /\ initialized =>
          /\ hist.fetches >= 1
          /\ \A k \in 1 .. Len(timeline) :
                /\ k \in DOMAIN post_index
                /\ post_index[k] = [cid |-> timeline[k].cid, uri |-> timeline[k].uri]

\* C32's case: initialize failed in on_open, and a get_page_summary call made
\* then was answered with the provider's not-initialized error.
C32_Witness ==
    /\ ~initialized
    /\ "on_open" \in hist.raised
    /\ \E i \in DOMAIN hist.calls :
          LET c == hist.calls[i]
          IN  /\ c.name = "get_page_summary"
              /\ c.provider = "raised"
              /\ c.result = Error("not_initialized")
              /\ AnsweredOnce(c.call_id)
              /\ \A j \in OutputsFor(c.call_id) : WsSent[j].output = c.result

\* C9: on an initialized timeline, for every sequence number k on the page-1
\* summary, get_post_detail(k) returns a detail, and it is the detail of a post
\* with the cid of the post summarized under k.
C9_DetailMatchesSummary ==
    initialized =>
        LET page == get_minimal_posts(IntVal(1))
        IN  /\ ~page.raised
            /\ \A i \in DOMAIN page.lines :
                  LET detail == get_post_detail(IntVal(page.lines[i].num))
                  IN  /\ detail.kind = "detail"
                      /\ detail.lines[1].cid = page.lines[i].cid

\* C9's case: a fetched timeline longer than a page, in which some number on
\* page 1 resolves to another feed entry than the one summarized under it.
C9_Witness ==
    /\ initialized
    /\ Len(timeline) > page_size
    /\ Len(get_minimal_posts(IntVal(1)).lines) = page_size
    /\ \E k \in 1 .. page_size : find_feed_view(k) \notin {0, k}

====
